---- MODULE Spec2Model ----
(***************************************************************************)
(* Heap fragmentation measurement: the workload loop of main(), the Linux  *)
(* inspector getHeapInfo (malloc_info dump parsing) and the Windows        *)
(* inspector GetHeapInfo (HeapLock / HeapWalk / HeapUnlock).               *)
(*                                                                         *)
(* size_t is modelled W bits wide; every size_t operation is taken modulo  *)
(* 2^W.  A dump is a sequence of tokens; a token is a marker ("<free>",    *)
(* "</free>") or a chunk element whose size attribute is a sequence of     *)
(* character codes (0..9 are the digits, NonDigit is any other character). *)
(***************************************************************************)
EXTENDS Integers, Sequences, FiniteSets, TLC

VARIABLES
    platform,          \* "linux" | "windows": which main() runs
    allocator,         \* "honest" | "underreport": the usable-size behaviour of the allocator boundary
    pc,                \* position in main() / GetHeapInfo
    t,                 \* outer loop counter
    i,                 \* inner allocation loop counter
    allocatedBlocks,   \* std::vector<void*>
    requestedSizes,    \* std::vector<size_t>
    statsOverTime,     \* std::vector<HeapStats>
    currentStats,      \* HeapStats under construction
    heap,              \* the allocator's chunks, in address order; a handle names one
                       \* allocation (an index), so a stale pointer is told from a live one
    dump,              \* text written by malloc_info into the buffer
    result,            \* the pair the inspector returned last
    lockDepth,         \* HeapLock nesting of the heap
    entry,             \* PROCESS_HEAP_ENTRY: index of the entry HeapWalk returned last
    totalFree,         \* GetHeapInfo local
    biggestFree,       \* GetHeapInfo local
    lastError,         \* GetLastError() after HeapWalk returned FALSE
    structFail,        \* the inspection in progress met a structural failure
    inspections,       \* number of inspector invocations so far
    misuse,            \* misuses of the allocator boundary seen so far
    csvFile            \* whether the CSV file was opened, and the rows written to it

vars == <<platform, allocator, pc, t, i, allocatedBlocks, requestedSizes,
          statsOverTime, currentStats, heap, dump, result, lockDepth, entry,
          totalFree, biggestFree, lastError, structFail, inspections, misuse,
          csvFile>>

----------------------------------------------------------------------------
(* Bounds *)

W == 20                 \* width of size_t in the model
Timesteps == 2          \* outer loop bound (100 in the code)
AllocsPerStep == 1      \* inner loop bound (10 in the code)
FreeThreshold == 1      \* live-block count above which one block is freed (20 in the code)
BufTokens == 3          \* capacity of the dump buffer, in tokens (65536 bytes in the code)
MaxLen == 5             \* longest dump drawn for the parser

Mod == 2^W
SizeMax == Mod - 1      \* (size_t)-1, also std::string::npos and ULONG_MAX

----------------------------------------------------------------------------
(* Dump text *)

NonDigit == 10

OpenTok == [k |-> "open", attr |-> <<>>]       \* "<free>"
CloseTok == [k |-> "close", attr |-> <<>>]     \* "</free>"
ChunkTok(a) == [k |-> "chunk", attr |-> a]     \* "<chunk size=\"a\">"

RECURSIVE ToDigits(_)
ToDigits(n) == IF n < 10 THEN <<n>> ELSE Append(ToDigits(n \div 10), n % 10)

OverflowAttr == <<9, 9, 9, 9, 9, 9, 9, 9, 9>>   \* a number above ULONG_MAX
NonNumericAttr == <<1, NonDigit>>               \* "1x"

\* regex (\d+): one or more digits
IsDigits(a) == Len(a) > 0 /\ \A j \in 1..Len(a) : a[j] < 10

\* exact value of a digit string, or -1 once it exceeds SizeMax
RECURSIVE DigitsValue(_, _)
DigitsValue(a, acc) ==
    IF a = <<>> THEN acc
    ELSE IF acc > (SizeMax - Head(a)) \div 10 THEN -1
    ELSE DigitsValue(Tail(a), 10 * acc + Head(a))

\* std::stoul: the value, or -1 for std::out_of_range
stoul(a) == DigitsValue(a, 0)

\* std::string::find at token granularity: 0-based index, SizeMax for npos
RECURSIVE FindFrom(_, _, _)
FindFrom(info, kind, j) ==
    IF j > Len(info) THEN SizeMax
    ELSE IF info[j].k = kind THEN j - 1
    ELSE FindFrom(info, kind, j + 1)

find(info, kind) == FindFrom(info, kind, 1)

Min(a, b) == IF a < b THEN a ELSE b

\* std::string::substr(pos, count): count is clipped to the end of the string
substr(info, pos, count) == SubSeq(info, pos + 1, Min(Len(info), pos + count))

AddFree_Overwrite(total, chunkSize) == chunkSize

\* totalFree += chunkSize
AddFree(total, chunkSize) == (total + chunkSize) % Mod

\* if (chunkSize > biggestFree) biggestFree = chunkSize
MaxFree(biggest, chunkSize) == IF chunkSize > biggest THEN chunkSize ELSE biggest

\* the sregex_iterator loop over free_section
RECURSIVE ScanChunks(_, _, _)
ScanChunks(section, total, biggest) ==
    IF section = <<>> THEN [status |-> "ok", totalFree |-> total, biggestFree |-> biggest]
    ELSE LET tok == Head(section) IN
         IF tok.k = "chunk" /\ IsDigits(tok.attr)
         THEN LET chunkSize == stoul(tok.attr) IN
              IF chunkSize < 0
              THEN [status |-> "throw", totalFree |-> total, biggestFree |-> biggest]
              ELSE ScanChunks(Tail(section), AddFree(total, chunkSize),
                              MaxFree(biggest, chunkSize))
         ELSE ScanChunks(Tail(section), total, biggest)

\* the try block of getHeapInfo
ParseInfo(info) ==
    LET free_start == find(info, "open")
        free_end == find(info, "close")
    IN IF free_start # SizeMax /\ free_end # SizeMax
       THEN ScanChunks(substr(info, free_start, (free_end + Mod - free_start) % Mod), 0, 0)
       ELSE [status |-> "ok", totalFree |-> 0, biggestFree |-> 0]

\* getHeapInfo(): fmemopenOk is whether fmemopen returned a stream, info the buffer text
getHeapInfo(fmemopenOk, info) ==
    IF ~fmemopenOk THEN [status |-> "ok", totalFree |-> 0, biggestFree |-> 0]
    ELSE ParseInfo(info)

----------------------------------------------------------------------------
(* The dumps the parser is exercised on *)

Alphabet == {OpenTok, CloseTok, ChunkTok(ToDigits(100)), ChunkTok(ToDigits(250)),
             ChunkTok(ToDigits(SizeMax)), ChunkTok(NonNumericAttr), ChunkTok(OverflowAttr)}

ExampleDump == <<ChunkTok(ToDigits(99999)), OpenTok, ChunkTok(ToDigits(100)),
                 ChunkTok(ToDigits(250)), ChunkTok(ToDigits(50)), CloseTok>>

\* values of the well-formed chunk tokens of a token sequence
RECURSIVE ValidSizes(_)
ValidSizes(s) ==
    IF s = <<>> THEN <<>>
    ELSE IF Head(s).k = "chunk" /\ IsDigits(Head(s).attr) /\ stoul(Head(s).attr) >= 0
         THEN <<stoul(Head(s).attr)>> \o ValidSizes(Tail(s))
         ELSE ValidSizes(Tail(s))

RECURSIVE SeqSum(_)
SeqSum(s) == IF s = <<>> THEN 0 ELSE Head(s) + SeqSum(Tail(s))

RECURSIVE SeqMax(_)
SeqMax(s) == IF s = <<>> THEN 0
             ELSE LET m == SeqMax(Tail(s)) IN IF Head(s) > m THEN Head(s) ELSE m

\* chunks are disjoint spans of one address space: their sizes add up to at most SizeMax
Realizable(d) == SeqSum(ValidSizes(d)) <= SizeMax

Dumps == {d \in (UNION {[1..n -> Alphabet] : n \in 0..MaxLen}) \cup {ExampleDump} :
            Realizable(d)}

----------------------------------------------------------------------------
(* The allocator boundary *)

Sizes == {512, 1000}     \* values of 512 + (rand() % 1024) the workload draws

NoBlock == 0             \* nullptr / NULL

\* malloc_usable_size / HeapSize of a block allocated with request req
UsableSize(plat, alloc, req) ==
    IF alloc = "underreport" THEN req - 8
    ELSE IF plat = "linux" THEN ((req + 8 + 15) \div 16) * 16 - 8
    ELSE req

\* free / HeapFree of handle h
FreeBlock(hp, h) == [hp EXCEPT ![h].busy = FALSE]

FreeMisuse(hp, h) == IF hp[h].busy THEN {} ELSE {"double_free"}

\* sizes of the free chunks of the heap, in address order
RECURSIVE FreeSizes(_)
FreeSizes(hp) ==
    IF hp = <<>> THEN <<>>
    ELSE IF Head(hp).busy THEN FreeSizes(Tail(hp))
    ELSE <<Head(hp).size>> \o FreeSizes(Tail(hp))

\* the free-chunk report malloc_info is expected to write
Render(sizes) == <<OpenTok>> \o [j \in 1..Len(sizes) |-> ChunkTok(ToDigits(sizes[j]))]
                 \o <<CloseTok>>

\* what malloc_info wrote: nothing when it fails, the report, or a report with a
\* chunk size too large for unsigned long
Written(outcome, hp) ==
    IF outcome = "fail" THEN <<>>
    ELSE IF outcome = "hostile"
         THEN <<OpenTok, ChunkTok(OverflowAttr)>> \o Tail(Render(FreeSizes(hp)))
         ELSE Render(FreeSizes(hp))

\* fmemopen on a buffer of fixed size: what does not fit is not written
Truncate(d) == SubSeq(d, 1, Min(Len(d), BufTokens))

----------------------------------------------------------------------------
(* The aggregation of Step B *)

RECURSIVE SumRequested_SkipFirst(_)
SumRequested_SkipFirst(sizes) ==
    IF Len(sizes) <= 1 THEN 0
    ELSE (Head(Tail(sizes)) + SumRequested_SkipFirst(Tail(sizes))) % Mod

\* currentStats.totalUserRequested += requestedSizes[i]
RECURSIVE SumRequested(_)
SumRequested(sizes) ==
    IF sizes = <<>> THEN 0 ELSE (Head(sizes) + SumRequested(Tail(sizes))) % Mod

\* currentStats.totalHeapCommitted += malloc_usable_size(allocatedBlocks[i])
RECURSIVE SumCommitted(_, _)
SumCommitted(blocks, hp) ==
    IF blocks = <<>> THEN 0
    ELSE (hp[Head(blocks)].size + SumCommitted(Tail(blocks), hp)) % Mod

\* currentStats.internalFragmentation = totalHeapCommitted - totalUserRequested
InternalFragmentation(committed, requested) == (committed + Mod - requested) % Mod

\* (totalFree > 0) ? (1.0 - (double)biggestFree / totalFree) : 0.0, as a fraction
Ratio(total, biggest) == IF total > 0 THEN <<total - biggest, total>> ELSE <<0, 1>>

NoStats == [timeStep |-> 0, totalUserRequested |-> 0, totalHeapCommitted |-> 0,
            internalFragmentation |-> 0, totalFreeOnHeap |-> 0, biggestFreeBlock |-> 0,
            externalFragmentationRatio |-> <<0, 1>>]

\* vector::erase(begin() + idx), idx 0-based
Erase(s, idx) == SubSeq(s, 1, idx) \o SubSeq(s, idx + 2, Len(s))

CsvRow(s) == <<s.timeStep, s.internalFragmentation, s.externalFragmentationRatio,
               s.totalFreeOnHeap, s.biggestFreeBlock, s.totalUserRequested>>

----------------------------------------------------------------------------
(* main() *)

Init ==
    /\ platform \in {"linux", "windows"}
    /\ allocator = "honest"
    /\ pc = "alloc"
    /\ t = 0 /\ i = 0
    /\ allocatedBlocks = <<>> /\ requestedSizes = <<>> /\ statsOverTime = <<>>
    /\ currentStats = NoStats
    /\ heap = <<>>
    /\ dump = <<>>
    /\ result = <<0, 0>>
    /\ lockDepth = 0 /\ entry = 0 /\ totalFree = 0 /\ biggestFree = 0
    /\ lastError = "none"
    /\ structFail = FALSE
    /\ inspections = 0
    /\ misuse = {}
    /\ csvFile = [open |-> FALSE, rows |-> <<>>]

\* Step A, one iteration of the allocation loop
Alloc ==
    /\ pc = "alloc" /\ i < AllocsPerStep
    /\ \E size \in Sizes, ok \in BOOLEAN :
         LET block == IF ok THEN Len(heap) + 1 ELSE NoBlock IN
         /\ heap' = IF ok
                    THEN Append(heap, [req |-> size,
                                       size |-> UsableSize(platform, allocator, size),
                                       busy |-> TRUE])
                    ELSE heap
         /\ IF block # NoBlock
            THEN /\ allocatedBlocks' = Append(allocatedBlocks, block)
                 /\ requestedSizes' = Append(requestedSizes, size)
            ELSE UNCHANGED <<allocatedBlocks, requestedSizes>>
    /\ i' = i + 1
    /\ pc' = IF i + 1 < AllocsPerStep THEN "alloc" ELSE "free"
    /\ UNCHANGED <<platform, allocator, t, statsOverTime, currentStats, dump, result,
                   lockDepth, entry, totalFree, biggestFree, lastError, structFail,
                   inspections, misuse, csvFile>>

MaybeFree_KeepSize ==
    /\ pc = "free"
    /\ IF Len(allocatedBlocks) > FreeThreshold
       THEN \E blockToFreeIdx \in 0..(Len(allocatedBlocks) - 1) :
              /\ heap' = FreeBlock(heap, allocatedBlocks[blockToFreeIdx + 1])
              /\ misuse' = misuse \cup FreeMisuse(heap, allocatedBlocks[blockToFreeIdx + 1])
              /\ allocatedBlocks' = Erase(allocatedBlocks, blockToFreeIdx)
              /\ requestedSizes' = Erase(requestedSizes, Len(requestedSizes) - 1)
       ELSE UNCHANGED <<heap, misuse, allocatedBlocks, requestedSizes>>
    /\ pc' = "collect"
    /\ UNCHANGED <<platform, allocator, t, i, statsOverTime, currentStats, dump, result,
                   lockDepth, entry, totalFree, biggestFree, lastError, structFail,
                   inspections, csvFile>>

\* Step A, the conditional free of one random block
MaybeFree ==
    /\ pc = "free"
    /\ IF Len(allocatedBlocks) > FreeThreshold
       THEN \E blockToFreeIdx \in 0..(Len(allocatedBlocks) - 1) :
              /\ heap' = FreeBlock(heap, allocatedBlocks[blockToFreeIdx + 1])
              /\ misuse' = misuse \cup FreeMisuse(heap, allocatedBlocks[blockToFreeIdx + 1])
              /\ allocatedBlocks' = Erase(allocatedBlocks, blockToFreeIdx)
              /\ requestedSizes' = Erase(requestedSizes, blockToFreeIdx)
       ELSE UNCHANGED <<heap, misuse, allocatedBlocks, requestedSizes>>
    /\ pc' = "collect"
    /\ UNCHANGED <<platform, allocator, t, i, statsOverTime, currentStats, dump, result,
                   lockDepth, entry, totalFree, biggestFree, lastError, structFail,
                   inspections, csvFile>>

\* Step B up to the inspector call: the two sums and their difference
Collect ==
    /\ pc = "collect"
    /\ LET requested == SumRequested(requestedSizes)
           committed == SumCommitted(allocatedBlocks, heap)
       IN currentStats' = [NoStats EXCEPT !.timeStep = t,
                                          !.totalUserRequested = requested,
                                          !.totalHeapCommitted = committed,
                                          !.internalFragmentation =
                                              InternalFragmentation(committed, requested)]
    /\ misuse' = misuse \cup
                 (IF \E j \in 1..Len(allocatedBlocks) : ~heap[allocatedBlocks[j]].busy
                  THEN {"use_after_free"} ELSE {})
    /\ pc' = "inspect"
    /\ UNCHANGED <<platform, allocator, t, i, allocatedBlocks, requestedSizes,
                   statsOverTime, heap, dump, result, lockDepth, entry, totalFree,
                   biggestFree, lastError, structFail, inspections, csvFile>>

\* getHeapInfo() of main_linux.cpp, called from main
GetHeapInfoLinux ==
    /\ pc = "inspect" /\ platform = "linux"
    /\ \E fmemopenOk \in BOOLEAN, outcome \in {"ok", "fail", "hostile"} :
         LET written == Written(outcome, heap)
             r == getHeapInfo(fmemopenOk, Truncate(written))
         IN /\ structFail' = (~fmemopenOk \/ outcome = "fail" \/ Len(written) > BufTokens)
            /\ IF r.status = "throw"
               THEN pc' = "aborted" /\ UNCHANGED result
               ELSE pc' = "record" /\ result' = <<r.totalFree, r.biggestFree>>
    /\ inspections' = inspections + 1
    /\ UNCHANGED <<platform, allocator, t, i, allocatedBlocks, requestedSizes,
                   statsOverTime, currentStats, heap, dump, lockDepth, entry, totalFree,
                   biggestFree, lastError, misuse, csvFile>>

----------------------------------------------------------------------------
(* GetHeapInfo(heapHandle) of main_windows.cpp *)

\* if (!HeapLock(heapHandle)) return {0, 0};
HeapLockStep ==
    /\ pc = "inspect" /\ platform = "windows"
    /\ \E locked \in BOOLEAN :
         IF locked
         THEN /\ lockDepth' = lockDepth + 1
              /\ entry' = 0 /\ totalFree' = 0 /\ biggestFree' = 0
              /\ pc' = "walk"
              /\ UNCHANGED <<result, structFail>>
         ELSE /\ result' = <<0, 0>>
              /\ structFail' = TRUE
              /\ pc' = "record"
              /\ UNCHANGED <<lockDepth, entry, totalFree, biggestFree>>
    /\ inspections' = inspections + 1
    /\ UNCHANGED <<platform, allocator, t, i, allocatedBlocks, requestedSizes,
                   statsOverTime, currentStats, heap, dump, lastError, misuse, csvFile>>

\* one evaluation of while (HeapWalk(heapHandle, &entry)) and, when it returns TRUE,
\* the loop body
HeapWalkStep ==
    /\ pc = "walk"
    /\ misuse' = misuse \cup (IF lockDepth = 0 THEN {"walk_unlocked"} ELSE {})
    /\ \E walkOk \in BOOLEAN :
         IF walkOk /\ entry < Len(heap)
         THEN /\ entry' = entry + 1
              /\ IF ~heap[entry + 1].busy
                 THEN /\ totalFree' = AddFree(totalFree, heap[entry + 1].size)
                      /\ biggestFree' = MaxFree(biggestFree, heap[entry + 1].size)
                 ELSE UNCHANGED <<totalFree, biggestFree>>
              /\ UNCHANGED <<pc, lastError, structFail>>
         ELSE /\ lastError' = IF walkOk THEN "ERROR_NO_MORE_ITEMS" ELSE "ERROR_OTHER"
              /\ structFail' = ~walkOk
              /\ pc' = "unlock"
              /\ UNCHANGED <<entry, totalFree, biggestFree>>
    /\ UNCHANGED <<platform, allocator, t, i, allocatedBlocks, requestedSizes,
                   statsOverTime, currentStats, heap, dump, result, lockDepth,
                   inspections, csvFile>>

HeapUnlockStep_OnlyAtEnd ==
    /\ pc = "unlock"
    /\ misuse' = misuse \cup (IF lockDepth = 0 THEN {"unlock_unheld"} ELSE {})
    /\ lockDepth' = IF lastError = "ERROR_NO_MORE_ITEMS" /\ lockDepth > 0
                    THEN lockDepth - 1 ELSE lockDepth
    /\ result' = <<totalFree, biggestFree>>
    /\ entry' = 0 /\ totalFree' = 0 /\ biggestFree' = 0 /\ lastError' = "none"
    /\ pc' = "record"
    /\ UNCHANGED <<platform, allocator, t, i, allocatedBlocks, requestedSizes,
                   statsOverTime, currentStats, heap, dump, structFail, inspections,
                   csvFile>>

\* HeapUnlock(heapHandle); return {totalFree, biggestFree};
HeapUnlockStep ==
    /\ pc = "unlock"
    /\ misuse' = misuse \cup (IF lockDepth = 0 THEN {"unlock_unheld"} ELSE {})
    /\ lockDepth' = IF lockDepth > 0 THEN lockDepth - 1 ELSE 0
    /\ result' = <<totalFree, biggestFree>>
    /\ entry' = 0 /\ totalFree' = 0 /\ biggestFree' = 0 /\ lastError' = "none"
    /\ pc' = "record"
    /\ UNCHANGED <<platform, allocator, t, i, allocatedBlocks, requestedSizes,
                   statsOverTime, currentStats, heap, dump, structFail, inspections,
                   csvFile>>

----------------------------------------------------------------------------
(* main(), after the inspector returned *)

\* the rest of Step B: copy the pair, compute the ratio, push_back, ++t
Record ==
    /\ pc = "record"
    /\ statsOverTime' = Append(statsOverTime,
           [currentStats EXCEPT !.totalFreeOnHeap = result[1],
                                !.biggestFreeBlock = result[2],
                                !.externalFragmentationRatio = Ratio(result[1], result[2])])
    /\ currentStats' = NoStats
    /\ structFail' = FALSE
    /\ t' = t + 1
    /\ i' = 0
    /\ pc' = IF t + 1 < Timesteps THEN "alloc" ELSE "csv"
    /\ UNCHANGED <<platform, allocator, allocatedBlocks, requestedSizes, heap, dump,
                   result, lockDepth, entry, totalFree, biggestFree, lastError,
                   inspections, misuse, csvFile>>

\* the CSV output: skipped when the file cannot be opened
WriteCsv ==
    /\ pc = "csv"
    /\ \E isOpen \in BOOLEAN :
         csvFile' = IF isOpen
                    THEN [open |-> TRUE,
                          rows |-> [j \in 1..Len(statsOverTime) |-> CsvRow(statsOverTime[j])]]
                    ELSE [open |-> FALSE, rows |-> <<>>]
    /\ pc' = "cleanup"
    /\ UNCHANGED <<platform, allocator, t, i, allocatedBlocks, requestedSizes,
                   statsOverTime, currentStats, heap, dump, result, lockDepth, entry,
                   totalFree, biggestFree, lastError, structFail, inspections, misuse>>

\* for (void* block : allocatedBlocks) free(block);
RECURSIVE FreeAll(_, _)
FreeAll(st, blocks) ==
    IF blocks = <<>> THEN st
    ELSE FreeAll([hp |-> FreeBlock(st.hp, Head(blocks)),
                  bad |-> st.bad \cup FreeMisuse(st.hp, Head(blocks))], Tail(blocks))

\* final cleanup; main_windows.cpp also clears the two vectors (its closing
\* HeapDestroy of the process heap is not modelled)
Cleanup ==
    /\ pc = "cleanup"
    /\ LET st == FreeAll([hp |-> heap, bad |-> {}], allocatedBlocks)
       IN heap' = st.hp /\ misuse' = misuse \cup st.bad
    /\ IF platform = "windows"
       THEN allocatedBlocks' = <<>> /\ requestedSizes' = <<>>
       ELSE UNCHANGED <<allocatedBlocks, requestedSizes>>
    /\ pc' = "done"
    /\ UNCHANGED <<platform, allocator, t, i, statsOverTime, currentStats, dump, result,
                   lockDepth, entry, totalFree, biggestFree, lastError, structFail,
                   inspections, csvFile>>

Next ==
    \/ Alloc
    \/ MaybeFree
    \/ Collect
    \/ GetHeapInfoLinux
    \/ HeapLockStep
    \/ HeapWalkStep
    \/ HeapUnlockStep
    \/ Record
    \/ WriteCsv
    \/ Cleanup

Spec == Init /\ [][Next]_vars

\* the same program against an allocator whose usable-size query under-reports
InitStub ==
    /\ platform \in {"linux", "windows"}
    /\ allocator = "underreport"
    /\ pc = "alloc"
    /\ t = 0 /\ i = 0
    /\ allocatedBlocks = <<>> /\ requestedSizes = <<>> /\ statsOverTime = <<>>
    /\ currentStats = NoStats
    /\ heap = <<>>
    /\ dump = <<>>
    /\ result = <<0, 0>>
    /\ lockDepth = 0 /\ entry = 0 /\ totalFree = 0 /\ biggestFree = 0
    /\ lastError = "none"
    /\ structFail = FALSE
    /\ inspections = 0
    /\ misuse = {}
    /\ csvFile = [open |-> FALSE, rows |-> <<>>]

SpecStub == InitStub /\ [][Next]_vars

----------------------------------------------------------------------------
(* getHeapInfo applied to a given dump *)

InitParse ==
    /\ platform = "linux"
    /\ allocator = "honest"
    /\ pc = "parse"
    /\ t = 0 /\ i = 0
    /\ allocatedBlocks = <<>> /\ requestedSizes = <<>> /\ statsOverTime = <<>>
    /\ currentStats = NoStats
    /\ heap = <<>>
    /\ dump \in Dumps
    /\ result = <<0, 0>>
    /\ lockDepth = 0 /\ entry = 0 /\ totalFree = 0 /\ biggestFree = 0
    /\ lastError = "none"
    /\ structFail = FALSE
    /\ inspections = 0
    /\ misuse = {}
    /\ csvFile = [open |-> FALSE, rows |-> <<>>]

ParseDump ==
    /\ pc = "parse"
    /\ \E fmemopenOk \in BOOLEAN :
         LET r == getHeapInfo(fmemopenOk, dump)
         IN /\ structFail' = ~fmemopenOk
            /\ IF r.status = "throw"
               THEN pc' = "aborted" /\ UNCHANGED result
               ELSE pc' = "parsed" /\ result' = <<r.totalFree, r.biggestFree>>
    /\ inspections' = inspections + 1
    /\ UNCHANGED <<platform, allocator, t, i, allocatedBlocks, requestedSizes,
                   statsOverTime, currentStats, heap, dump, lockDepth, entry, totalFree,
                   biggestFree, lastError, misuse, csvFile>>

SpecParse == InitParse /\ [][ParseDump]_vars

InitAll == Init \/ InitParse

NextAll == Next \/ ParseDump

SpecAll == InitAll /\ [][NextAll]_vars

----------------------------------------------------------------------------
(* Reference definitions used by the properties *)

\* the tokens strictly between the first "<free>" and the first "</free>", when the
\* closing marker follows the opening one
FreeRegion(d) ==
    LET o == find(d, "open")
        c == find(d, "close")
    IN IF o # SizeMax /\ c # SizeMax /\ o < c THEN SubSeq(d, o + 2, c) ELSE <<>>

WellScoped(d) == find(d, "open") # SizeMax /\ find(d, "close") # SizeMax
                 /\ find(d, "open") < find(d, "close")

BadToken(tok) == tok.k = "chunk" /\ (~IsDigits(tok.attr) \/ stoul(tok.attr) < 0)

RegionResult(d) == <<SeqSum(ValidSizes(FreeRegion(d))), SeqMax(ValidSizes(FreeRegion(d)))>>

LiveHandles(hp) == {h \in 1..Len(hp) : hp[h].busy}

FreedCount(hp) == Cardinality({h \in 1..Len(hp) : ~hp[h].busy})

RECURSIVE SetSum(_, _)
SetSum(f, S) == IF S = {} THEN 0
                ELSE LET x == CHOOSE y \in S : TRUE IN f[x] + SetSum(f, S \ {x})

RefRequested(hp) == SetSum([h \in 1..Len(hp) |-> hp[h].req], LiveHandles(hp))

RefCommitted(hp) == SetSum([h \in 1..Len(hp) |-> hp[h].size], LiveHandles(hp))

InLoop == pc \in {"alloc", "free", "collect", "inspect", "walk", "unlock", "record"}

----------------------------------------------------------------------------
(* Properties *)

\* C1: getHeapInfo returns (sum, max) over exactly the chunk tokens inside the free
\* region; tokens before "<free>", after "</free>", or in a dump whose "</free>"
\* precedes its "<free>" contribute nothing.
C1_OnlyFreeRegionCounted ==
    (pc = "parsed" /\ ~structFail) => result = RegionResult(dump)

\* C2: internalFragmentation is 0 when the summed committed size is below the summed
\* requested size, and committed - requested otherwise; it never wraps.
C2_InternalFragmentationNeverWraps ==
    \A k \in 1..Len(statsOverTime) :
        LET s == statsOverTime[k] IN
        s.internalFragmentation =
            IF s.totalHeapCommitted < s.totalUserRequested THEN 0
            ELSE s.totalHeapCommitted - s.totalUserRequested

\* C3: an inspection that met a structural failure (lock not taken, walk error, dump
\* call failed, dump truncated by the buffer) returns exactly (0, 0).
C3_StructuralFailureYieldsZero ==
    (pc = "record" /\ structFail) => result = <<0, 0>>

\* C4: a non-numeric or overflowing chunk token inside the free region is skipped;
\* getHeapInfo still returns the (sum, max) of the valid free-region tokens and
\* raises nothing.
C4_BadTokenSkipped ==
    (pc \in {"parsed", "aborted"} /\ ~structFail /\ WellScoped(dump)
       /\ \E j \in 1..Len(FreeRegion(dump)) : BadToken(FreeRegion(dump)[j]))
    => (pc = "parsed" /\ result = RegionResult(dump))

\* C5: the run ends only by completing all timesteps, with every handle obtained from
\* a successful allocation freed exactly once.
C5_RunsToCompletionAndReleasesAll ==
    (pc \in {"done", "aborted"}) =>
        /\ pc = "done"
        /\ Len(statsOverTime) = Timesteps
        /\ LiveHandles(heap) = {}
        /\ "double_free" \notin misuse

C9_LockDiscipline ==
    /\ "walk_unlocked" \notin misuse
    /\ "unlock_unheld" \notin misuse
    /\ pc \in {"walk", "unlock"} => lockDepth = 1
    /\ pc \notin {"walk", "unlock"} => lockDepth = 0

C9_Witness ==
    /\ platform = "windows"
    /\ pc = "record" /\ structFail
    /\ result[1] > 0
    /\ lockDepth = 0
    /\ t > 0

C10_LiveSetInv ==
    /\ Len(allocatedBlocks) = Len(requestedSizes)
    /\ "double_free" \notin misuse
    /\ "use_after_free" \notin misuse
    /\ (InLoop \/ pc \in {"csv", "cleanup"}) =>
         /\ {allocatedBlocks[j] : j \in 1..Len(allocatedBlocks)} = LiveHandles(heap)
         /\ Cardinality(LiveHandles(heap)) = Len(allocatedBlocks)
         /\ \A j \in 1..Len(allocatedBlocks) :
              heap[allocatedBlocks[j]].req = requestedSizes[j]
    /\ InLoop => FreedCount(heap) <= (IF pc \in {"alloc", "free"} THEN t ELSE t + 1)

C10_FreeStep ==
    (pc # "cleanup" /\ FreedCount(heap') # FreedCount(heap)) =>
        /\ pc = "free"
        /\ Len(allocatedBlocks) > FreeThreshold
        /\ FreedCount(heap') = FreedCount(heap) + 1
        /\ Len(allocatedBlocks') = Len(allocatedBlocks) - 1
        /\ Len(requestedSizes') = Len(requestedSizes) - 1

C10_AllocStep ==
    (pc = "alloc") =>
        \/ /\ heap' = heap
           /\ allocatedBlocks' = allocatedBlocks
           /\ requestedSizes' = requestedSizes
        \/ /\ Len(heap') = Len(heap) + 1
           /\ allocatedBlocks' = Append(allocatedBlocks, Len(heap'))
           /\ requestedSizes' = Append(requestedSizes, heap'[Len(heap')].req)

\* C10: the two vectors hold, index by index, exactly the handles allocated and not
\* yet freed with the sizes requested for them; a failed allocation adds nothing; a
\* free removes handle and size together, at most once per timestep and only above
\* the threshold; no freed handle is queried or freed again.
C10_LiveSetTracksHeap ==
    [](C10_LiveSetInv) /\ [][C10_FreeStep /\ C10_AllocStep]_vars

C10_Witness ==
    /\ pc = "collect"
    /\ FreedCount(heap) = 1
    /\ Len(allocatedBlocks) >= 1
    /\ heap[allocatedBlocks[1]].req # heap[CHOOSE h \in 1..Len(heap) : ~heap[h].busy].req

====
